---- MODULE Spec2Model ----
(***************************************************************************)
(* Model of quiche/quic/moqt/moqt_subscribe_windows.cc:                    *)
(*   ReducedSequenceIndex, SendStreamMap and SubscribeWindow.              *)
(*                                                                         *)
(* Location, its ordering, its two-argument constructor, the containers    *)
(* behind send_streams_ and the constructors of SendStreamMap and          *)
(* SubscribeWindow are declared in moqt_messages.h and                     *)
(* moqt_subscribe_windows.h; they are modelled from the specification.     *)
(***************************************************************************)
EXTENDS Integers, Sequences, FiniteSets, TLC

(***************************************************************************)
(* Bounds.  uint64_t is scaled down to 0..UINT64_MAX; no arithmetic is     *)
(* done on the fields, so only the order and the largest value matter.     *)
(* The callers of the map pass groups 0..MaxGroup, subgroups               *)
(* 0..MaxSubgroup, the object ids 0 and MaxObject and the stream ids       *)
(* 1..NumStreams, and keep at most MaxLive streams in the map at once.     *)
(***************************************************************************)
UINT64_MAX == 2
MaxGroup == 1
MaxSubgroup == 1
MaxObject == 1
NumStreams == 2
MaxLive == 2

U64 == 0..UINT64_MAX
Groups == 0..MaxGroup
Subgroups == 0..MaxSubgroup
Objects == {0, MaxObject}
StreamIds == 1..NumStreams

VARIABLES
  start_,                  \* SubscribeWindow::start_
  end_,                    \* SubscribeWindow::end_
  wcall,                   \* the last SubscribeWindow call: operation, return value
  forwarding_preference_,  \* SendStreamMap::forwarding_preference_
  send_streams_,           \* SendStreamMap::send_streams_ : group -> (subgroup -> stream id)
  call,                    \* the last SendStreamMap call: operation, result, violation
  recorded,                \* history: (group, subgroup) -> stream of the last successful AddStream
                           \*          not followed by a successful RemoveStream
  lastAdd,                 \* history: if the last call was a successful AddStream, its key,
                           \*          its stream and the table before it
  undone,                  \* history: if the last two calls were a successful AddStream(L, S)
                           \*          and RemoveStream(L', S) on the same key, the table before them
  indices                  \* the ReducedSequenceIndex objects constructed last (at most two):
                           \*          constructor arguments and the member sequence_

vars == <<start_, end_, wcall, forwarding_preference_, send_streams_, call, recorded,
          lastAdd, undone, indices>>
windowVars == <<start_, end_, wcall>>
mapVars == <<forwarding_preference_, send_streams_, call, recorded, lastAdd, undone>>
indexVars == <<indices>>

(***************************************************************************)
(* Location                                                                *)
(***************************************************************************)
Location(group, subgroup, object) ==
  [group |-> group, subgroup |-> subgroup, object |-> object]

\* Location(group, object): the two-argument constructor used by
\* TruncateEnd(uint64_t); the finer field it does not take is maximal.
LocationGroupObject(group, object) == Location(group, UINT64_MAX, object)

Locations == [group : U64, subgroup : U64, object : U64]

\* operator< : lexicographic on (group, subgroup, object)
LocLess(a, b) ==
  \/ a.group < b.group
  \/ a.group = b.group /\ a.subgroup < b.subgroup
  \/ a.group = b.group /\ a.subgroup = b.subgroup /\ a.object < b.object

\* operator>
LocGreater(a, b) == LocLess(b, a)

\* operator<=
LocLeq(a, b) == ~LocLess(b, a)

(***************************************************************************)
(* SubscribeWindow                                                         *)
(***************************************************************************)
\* a window and the value a call on it returned
Window(start, end, ret) == [start |-> start, end |-> end, ret |-> ret]

InitWindow ==
  /\ start_ \in Locations
  /\ end_ \in Locations
  /\ LocLeq(start_, end_)
  /\ wcall = [op |-> "none", ret |-> FALSE]

\* TruncateStart that also rejects a start equal to the current one
TruncateStartOp_Strict(w_start, w_end, start) ==
  IF LocLeq(start, w_start)
    THEN Window(w_start, w_end, FALSE)
    ELSE Window(start, w_end, TRUE)

\* TruncateStart that also rejects a start beyond the current end
TruncateStartOp_CheckEnd(w_start, w_end, start) ==
  IF LocLess(start, w_start) \/ LocGreater(start, w_end)
    THEN Window(w_start, w_end, FALSE)
    ELSE Window(start, w_end, TRUE)

\* bool SubscribeWindow::TruncateStart(Location start)
TruncateStartOp(w_start, w_end, start) ==
  IF LocLess(start, w_start)
    THEN Window(w_start, w_end, FALSE)
    ELSE Window(start, w_end, TRUE)

\* TruncateEnd(uint64_t) that builds the new end from the current end's group
TruncateEndGroupOp_OldGroup(w_start, w_end, end_group) ==
  IF end_group > w_end.group
    THEN Window(w_start, w_end, FALSE)
    ELSE Window(w_start, LocationGroupObject(w_end.group, UINT64_MAX), TRUE)

\* TruncateEnd(uint64_t) that compares the whole new end with the current end
TruncateEndGroupOp_WholeEnd(w_start, w_end, end_group) ==
  IF LocGreater(LocationGroupObject(end_group, UINT64_MAX), w_end)
    THEN Window(w_start, w_end, FALSE)
    ELSE Window(w_start, LocationGroupObject(end_group, UINT64_MAX), TRUE)

\* bool SubscribeWindow::TruncateEnd(uint64_t end_group)
TruncateEndGroupOp(w_start, w_end, end_group) ==
  IF end_group > w_end.group
    THEN Window(w_start, w_end, FALSE)
    ELSE Window(w_start, LocationGroupObject(end_group, UINT64_MAX), TRUE)

\* TruncateEnd(Location) that also rejects an end equal to the current one
TruncateEndLocationOp_Strict(w_start, w_end, largest_id) ==
  IF LocLeq(w_end, largest_id)
    THEN Window(w_start, w_end, FALSE)
    ELSE Window(w_start, largest_id, TRUE)

\* bool SubscribeWindow::TruncateEnd(Location largest_id)
TruncateEndLocationOp(w_start, w_end, largest_id) ==
  IF LocGreater(largest_id, w_end)
    THEN Window(w_start, w_end, FALSE)
    ELSE Window(w_start, largest_id, TRUE)

\* a call: the members and the record of the call (operation, return value)
Returned(op, w) ==
  /\ start_' = w.start
  /\ end_' = w.end
  /\ wcall' = [op |-> op, ret |-> w.ret]

TruncateStart ==
  \E start \in Locations :
    Returned("TruncateStart", TruncateStartOp(start_, end_, start))

TruncateEndGroup ==
  \E end_group \in U64 :
    Returned("TruncateEndGroup", TruncateEndGroupOp(start_, end_, end_group))

TruncateEndLocation ==
  \E largest_id \in Locations :
    Returned("TruncateEndLocation", TruncateEndLocationOp(start_, end_, largest_id))

NextWindow ==
  \/ TruncateStart /\ UNCHANGED <<mapVars, indexVars>>
  \/ TruncateEndGroup /\ UNCHANGED <<mapVars, indexVars>>
  \/ TruncateEndLocation /\ UNCHANGED <<mapVars, indexVars>>

(***************************************************************************)
(* ReducedSequenceIndex                                                    *)
(***************************************************************************)
kSubgroup == "kSubgroup"
kDatagram == "kDatagram"
MoqtForwardingPreference == {kSubgroup, kDatagram}

\* ReducedSequenceIndex with the two cases of the switch exchanged
ReducedSequenceIndex_Swapped(sequence, preference) ==
  IF preference = kSubgroup
    THEN Location(sequence.group, 0, sequence.object)
    ELSE Location(sequence.group, sequence.subgroup, 0)

\* ReducedSequenceIndex that leaves the object field alone under kSubgroup
ReducedSequenceIndex_KeepObject(sequence, preference) ==
  IF preference = kSubgroup
    THEN Location(sequence.group, sequence.subgroup, sequence.object)
    ELSE Location(sequence.group, 0, sequence.object)

\* ReducedSequenceIndex::ReducedSequenceIndex(sequence, preference).sequence()
ReducedSequenceIndex(sequence, preference) ==
  IF preference = kSubgroup
    THEN Location(sequence.group, sequence.subgroup, 0)
    ELSE Location(sequence.group, 0, sequence.object)

\* no ReducedSequenceIndex constructed yet
InitIndex == indices = <<>>

\* ReducedSequenceIndex index(sequence, preference): the new object and the
\* one constructed before it
Construct ==
  \E sequence \in Locations, preference \in MoqtForwardingPreference :
    indices' = <<[sequence |-> sequence, preference |-> preference,
                  sequence_ |-> ReducedSequenceIndex(sequence, preference)]>>
               \o SubSeq(indices, 1, IF Len(indices) > 0 THEN 1 ELSE 0)

NextIndex ==
  \/ Construct /\ UNCHANGED <<windowVars, mapVars>>

(***************************************************************************)
(* SendStreamMap                                                           *)
(*                                                                         *)
(* A std::optional is a sequence of length at most one.  A map is a        *)
(* function whose DOMAIN is its key set.  A check macro that fires         *)
(* (QUICHE_DCHECK, QUIC_BUG_IF, QUICHE_NOTREACHED) is recorded as the      *)
(* violation of the call; the state then follows the statements after the  *)
(* macro, as in a build where the macro does not abort.                    *)
(***************************************************************************)
nullopt == <<>>
NoViolation == "none"
EmptyMap == [k \in {} |-> 0]

\* the Locations the callers of the map pass in
InputLocations == [group : Groups, subgroup : Subgroups, object : Objects]

\* keys of an ordered map in iteration order (ascending)
RECURSIVE Ascending(_)
Ascending(S) ==
  IF S = {} THEN <<>>
  ELSE LET m == CHOOSE x \in S : \A y \in S : x <= y
       IN <<m>> \o Ascending(S \ {m})

\* for (const auto& [subgroup, stream_id] : subgroup_map) ids.push_back(stream_id)
RECURSIVE PushAll(_, _)
PushAll(subgroup_map, keys) ==
  IF keys = <<>> THEN <<>>
  ELSE <<subgroup_map[Head(keys)]>> \o PushAll(subgroup_map, Tail(keys))

GroupStreams(subgroup_map) == PushAll(subgroup_map, Ascending(DOMAIN subgroup_map))

\* std::optional<StreamId> SendStreamMap::GetStreamForSequence(Location) const
GetStreamForSequence(m, preference, sequence) ==
  LET index == ReducedSequenceIndex(sequence, preference)
  IN IF index.group \notin DOMAIN m THEN nullopt
     ELSE IF index.subgroup \notin DOMAIN m[index.group] THEN nullopt
     ELSE <<m[index.group][index.subgroup]>>

\* QUICHE_DCHECK(forwarding_preference_ == kSubgroup) of GetStreamForSequence
GetStreamForSequenceViolation(preference) ==
  IF preference = kSubgroup THEN NoViolation ELSE "QUICHE_DCHECK"

\* AddStream that assigns (insert_or_assign) instead of try_emplace
AddStreamOp_Assign(m, preference, sequence, stream_id) ==
  LET index == ReducedSequenceIndex(sequence, preference)
      m1 == IF index.group \in DOMAIN m THEN m ELSE (index.group :> EmptyMap) @@ m
      success == index.subgroup \notin DOMAIN m1[index.group]
      m2 == [m1 EXCEPT ![index.group] = (index.subgroup :> stream_id) @@ @]
  IN [map |-> m2,
      violation |-> IF ~success THEN "QUIC_BUG" ELSE NoViolation]

\* AddStream that reports the outcome of the group insert instead of the
\* outcome of try_emplace
AddStreamOp_GroupCheck(m, preference, sequence, stream_id) ==
  LET index == ReducedSequenceIndex(sequence, preference)
      inserted == index.group \notin DOMAIN m
      m1 == IF inserted THEN (index.group :> EmptyMap) @@ m ELSE m
      m2 == IF index.subgroup \notin DOMAIN m1[index.group]
              THEN [m1 EXCEPT ![index.group] = (index.subgroup :> stream_id) @@ @]
              ELSE m1
  IN [map |-> m2,
      violation |-> IF ~inserted THEN "QUIC_BUG" ELSE NoViolation]

\* AddStream that also rejects a stream id the table already holds
AddStreamOp_UniqueStream(m, preference, sequence, stream_id) ==
  LET index == ReducedSequenceIndex(sequence, preference)
      m1 == IF index.group \in DOMAIN m THEN m ELSE (index.group :> EmptyMap) @@ m
      held == \E g \in DOMAIN m : \E sg \in DOMAIN m[g] : m[g][sg] = stream_id
      success == index.subgroup \notin DOMAIN m1[index.group] /\ ~held
      m2 == IF success
              THEN [m1 EXCEPT ![index.group] = (index.subgroup :> stream_id) @@ @]
              ELSE m1
  IN [map |-> m2,
      violation |-> IF ~success THEN "QUIC_BUG" ELSE NoViolation]

\* AddStream that assigns a new Group() to the group entry before try_emplace
AddStreamOp_ResetGroup(m, preference, sequence, stream_id) ==
  LET index == ReducedSequenceIndex(sequence, preference)
      m1 == (index.group :> EmptyMap) @@ m
      success == index.subgroup \notin DOMAIN m1[index.group]
      m2 == IF success
              THEN [m1 EXCEPT ![index.group] = (index.subgroup :> stream_id) @@ @]
              ELSE m1
  IN [map |-> m2,
      violation |-> IF ~success THEN "QUIC_BUG" ELSE NoViolation]

\* void SendStreamMap::AddStream(Location sequence, StreamId stream_id)
AddStreamOp(m, preference, sequence, stream_id) ==
  LET index == ReducedSequenceIndex(sequence, preference)
      \* send_streams_.insert({index.group, Group()})
      m1 == IF index.group \in DOMAIN m THEN m ELSE (index.group :> EmptyMap) @@ m
      \* it->second.try_emplace(index.subgroup, stream_id)
      success == index.subgroup \notin DOMAIN m1[index.group]
      m2 == IF success
              THEN [m1 EXCEPT ![index.group] = (index.subgroup :> stream_id) @@ @]
              ELSE m1
  IN [map |-> m2,
      violation |-> IF ~success THEN "QUIC_BUG" ELSE NoViolation]

\* RemoveStream without the comparison of the recorded stream id
RemoveStreamOp_NoIdCheck(m, preference, sequence, stream_id) ==
  LET index == ReducedSequenceIndex(sequence, preference)
  IN IF index.group \notin DOMAIN m
       THEN [map |-> m, violation |-> "QUICHE_NOTREACHED:61"]
     ELSE IF index.subgroup \notin DOMAIN m[index.group]
       THEN [map |-> m, violation |-> "QUICHE_NOTREACHED:67"]
     ELSE [map |-> [m EXCEPT ![index.group] =
                      [sg \in (DOMAIN @) \ {index.subgroup} |-> @[sg]]],
           violation |-> NoViolation]

\* RemoveStream that erases the group iterator instead of the subgroup iterator
RemoveStreamOp_EraseGroup(m, preference, sequence, stream_id) ==
  LET index == ReducedSequenceIndex(sequence, preference)
  IN IF index.group \notin DOMAIN m
       THEN [map |-> m, violation |-> "QUICHE_NOTREACHED:61"]
     ELSE IF \/ index.subgroup \notin DOMAIN m[index.group]
             \/ m[index.group][index.subgroup] # stream_id
       THEN [map |-> m, violation |-> "QUICHE_NOTREACHED:67"]
     ELSE [map |-> [g \in (DOMAIN m) \ {index.group} |-> m[g]],
           violation |-> NoViolation]

\* void SendStreamMap::RemoveStream(Location sequence, StreamId stream_id)
RemoveStreamOp(m, preference, sequence, stream_id) ==
  LET index == ReducedSequenceIndex(sequence, preference)
  IN IF index.group \notin DOMAIN m
       THEN [map |-> m, violation |-> "QUICHE_NOTREACHED:61"]
     ELSE IF \/ index.subgroup \notin DOMAIN m[index.group]
             \/ m[index.group][index.subgroup] # stream_id
       THEN [map |-> m, violation |-> "QUICHE_NOTREACHED:67"]
     ELSE [map |-> [m EXCEPT ![index.group] =
                      [sg \in (DOMAIN @) \ {index.subgroup} |-> @[sg]]],
           violation |-> NoViolation]

\* GetStreamsForGroup that falls back to the first group when group_id is unknown
GetStreamsForGroup_Fallback(m, group_id) ==
  IF group_id \notin DOMAIN m
    THEN IF DOMAIN m = {} THEN <<>> ELSE GroupStreams(m[Head(Ascending(DOMAIN m))])
    ELSE GroupStreams(m[group_id])

\* std::vector<StreamId> SendStreamMap::GetStreamsForGroup(uint64_t group_id) const
GetStreamsForGroup(m, group_id) ==
  IF group_id \notin DOMAIN m THEN <<>> ELSE GroupStreams(m[group_id])

\* std::vector<StreamId> SendStreamMap::GetAllStreams() const
RECURSIVE AllOf(_, _)
AllOf(m, groups) ==
  IF groups = <<>> THEN <<>>
  ELSE GroupStreams(m[Head(groups)]) \o AllOf(m, Tail(groups))

\* GetAllStreams that returns after the first group
GetAllStreams_FirstGroup(m) ==
  IF DOMAIN m = {} THEN <<>> ELSE GroupStreams(m[Head(Ascending(DOMAIN m))])

GetAllStreams(m) == AllOf(m, Ascending(DOMAIN m))

\* what the three queries return in one state of the map
Queries(m, preference) ==
  [get |-> [L \in InputLocations |-> GetStreamForSequence(m, preference, L)],
   all |-> GetAllStreams(m),
   grp |-> [g \in Groups |-> GetStreamsForGroup(m, g)]]

Keys == Groups \X Subgroups
KeyOf(sequence) == <<sequence.group, sequence.subgroup>>

\* the number of streams in the table
NumStreamsIn(m) ==
  Cardinality(UNION {{<<g, sg>> : sg \in DOMAIN m[g]} : g \in DOMAIN m})

\* the last call: its operation, what it returned and the check macro it fired
Call(op, result, violation) ==
  [op |-> op, result |-> result, violation |-> violation]

InitMap ==
  /\ forwarding_preference_ \in MoqtForwardingPreference
  /\ send_streams_ = EmptyMap
  /\ call = Call("none", <<>>, NoViolation)
  /\ recorded = [k \in Keys |-> nullopt]
  /\ lastAdd = <<>>
  /\ undone = <<>>

GetStreamForSequenceCall ==
  \E sequence \in InputLocations :
    /\ call' = Call("GetStreamForSequence",
                    GetStreamForSequence(send_streams_, forwarding_preference_, sequence),
                    GetStreamForSequenceViolation(forwarding_preference_))
    /\ lastAdd' = <<>>
    /\ undone' = <<>>
    /\ UNCHANGED <<forwarding_preference_, send_streams_, recorded>>

\* the caller keeps at most MaxLive streams open at once; r is the table
\* after the call and the check macro that fired
AddStream ==
  \E sequence \in InputLocations, stream_id \in StreamIds :
    \E r \in {AddStreamOp(send_streams_, forwarding_preference_, sequence, stream_id)} :
       /\ r.violation = NoViolation => NumStreamsIn(send_streams_) < MaxLive
       /\ send_streams_' = r.map
       /\ call' = Call("AddStream", <<>>, r.violation)
       /\ recorded' = IF r.violation = NoViolation
                        THEN [recorded EXCEPT ![KeyOf(sequence)] = <<stream_id>>]
                        ELSE recorded
       /\ lastAdd' = IF r.violation = NoViolation
                       THEN <<[key |-> KeyOf(sequence), stream_id |-> stream_id,
                               before |-> send_streams_]>>
                       ELSE <<>>
       /\ undone' = <<>>
       /\ UNCHANGED forwarding_preference_

RemoveStream ==
  \E sequence \in InputLocations, stream_id \in StreamIds :
    \E r \in {RemoveStreamOp(send_streams_, forwarding_preference_, sequence, stream_id)} :
       /\ send_streams_' = r.map
       /\ call' = Call("RemoveStream", <<>>, r.violation)
       /\ recorded' = IF r.violation = NoViolation
                        THEN [recorded EXCEPT ![KeyOf(sequence)] = nullopt]
                        ELSE recorded
       /\ lastAdd' = <<>>
       /\ undone' = IF /\ lastAdd # <<>>
                       /\ lastAdd[1].key = KeyOf(sequence)
                       /\ lastAdd[1].stream_id = stream_id
                      THEN <<lastAdd[1].before>>
                      ELSE <<>>
       /\ UNCHANGED forwarding_preference_

GetAllStreamsCall ==
  /\ call' = Call("GetAllStreams", GetAllStreams(send_streams_), NoViolation)
  /\ lastAdd' = <<>>
  /\ undone' = <<>>
  /\ UNCHANGED <<forwarding_preference_, send_streams_, recorded>>

GetStreamsForGroupCall ==
  \E group_id \in Groups :
    /\ call' = Call("GetStreamsForGroup",
                    GetStreamsForGroup(send_streams_, group_id), NoViolation)
    /\ lastAdd' = <<>>
    /\ undone' = <<>>
    /\ UNCHANGED <<forwarding_preference_, send_streams_, recorded>>

NextMap ==
  \/ GetStreamForSequenceCall /\ UNCHANGED <<windowVars, indexVars>>
  \/ AddStream /\ UNCHANGED <<windowVars, indexVars>>
  \/ RemoveStream /\ UNCHANGED <<windowVars, indexVars>>
  \/ GetAllStreamsCall /\ UNCHANGED <<windowVars, indexVars>>
  \/ GetStreamsForGroupCall /\ UNCHANGED <<windowVars, indexVars>>

\* only the two calls that change the table
NextAddRemove ==
  \/ AddStream /\ UNCHANGED <<windowVars, indexVars>>
  \/ RemoveStream /\ UNCHANGED <<windowVars, indexVars>>

(***************************************************************************)
(* Specifications: one object each, the other one idle.                    *)
(***************************************************************************)
IdleWindow ==
  /\ start_ = Location(0, 0, 0)
  /\ end_ = Location(UINT64_MAX, UINT64_MAX, UINT64_MAX)
  /\ wcall = [op |-> "none", ret |-> FALSE]

IdleMap ==
  /\ forwarding_preference_ = kSubgroup
  /\ send_streams_ = EmptyMap
  /\ call = Call("none", <<>>, NoViolation)
  /\ recorded = [k \in Keys |-> nullopt]
  /\ lastAdd = <<>>
  /\ undone = <<>>

InitW == InitWindow /\ IdleMap /\ InitIndex
InitM == InitMap /\ forwarding_preference_ = kSubgroup /\ IdleWindow /\ InitIndex
InitD == InitMap /\ forwarding_preference_ = kDatagram /\ IdleWindow /\ InitIndex
InitI == InitIndex /\ IdleWindow /\ IdleMap

\* a SubscribeWindow
SpecWindow == InitW /\ [][NextWindow]_vars
\* a SendStreamMap constructed with MoqtForwardingPreference::kSubgroup
SpecMap == InitM /\ [][NextMap]_vars
\* a SendStreamMap constructed with MoqtForwardingPreference::kDatagram
SpecDatagram == InitD /\ [][NextMap]_vars
\* a kSubgroup SendStreamMap on which only AddStream and RemoveStream are called
SpecAddRemove == InitM /\ [][NextAddRemove]_vars
\* ReducedSequenceIndex objects
SpecIndex == InitI /\ [][NextIndex]_vars

(***************************************************************************)
(* SubscribeWindow properties (checked under SpecWindow)                   *)
(***************************************************************************)

\* C1: start <= end holds in every reachable state of a window created with
\* start <= end, whatever truncations were called and whether they succeeded.
C1_StartLeqEnd == LocLeq(start_, end_)

\* C2: every step keeps start non-decreasing and end non-increasing, and a
\* call that returns false leaves (start, end) unchanged; so a call whose
\* argument would move start backward or end forward (TruncateEnd(end_group)
\* with end_group = end.group while end is not the last Location of the
\* group included) cannot return true.
C2_Monotonic ==
  [][ /\ LocLeq(start_, start_')
      /\ LocLeq(end_', end_)
      /\ ~wcall'.ret => (start_' = start_ /\ end_' = end_)
    ]_vars

LexGeq(a, b) ==
  \/ a = b
  \/ a.group > b.group
  \/ a.group = b.group /\ a.subgroup > b.subgroup
  \/ a.group = b.group /\ a.subgroup = b.subgroup /\ a.object > b.object

\* C12: TruncateStart(new_start) returns true exactly when new_start >= start
\* (equality included); on success start becomes new_start; on failure start
\* and end are unchanged.  end is unchanged on success as well.
C12_TruncateStart ==
  /\ \A new_start \in Locations :
       LET w == TruncateStartOp(start_, end_, new_start)
       IN /\ w.ret <=> LexGeq(new_start, start_)
          /\ w.ret => w.start = new_start
          /\ ~w.ret => (w.start = start_ /\ w.end = end_)
  /\ TruncateStartOp(start_, end_, start_) = Window(start_, end_, TRUE)

\* C12 witness: a TruncateStart call failed on a window whose start is
\* (1, 0, 0) and left it there.
C12_Witness ==
  /\ wcall.op = "TruncateStart"
  /\ ~wcall.ret
  /\ start_ = Location(1, 0, 0)

\* C13: TruncateEnd(new_end) returns true exactly when new_end <= end
\* (equality included); on success end becomes new_end; on failure start and
\* end are unchanged.
C13_TruncateEndLocation ==
  /\ \A new_end \in Locations :
       LET w == TruncateEndLocationOp(start_, end_, new_end)
       IN /\ w.ret <=> LexGeq(end_, new_end)
          /\ w.ret => w.end = new_end
          /\ ~w.ret => (w.start = start_ /\ w.end = end_)
  /\ TruncateEndLocationOp(start_, end_, end_) = Window(start_, end_, TRUE)

\* C13 witness: a TruncateEnd(Location) call failed on a window whose end is
\* (1, 1, 1) and left it there.
C13_Witness ==
  /\ wcall.op = "TruncateEndLocation"
  /\ ~wcall.ret
  /\ end_ = Location(1, 1, 1)

\* C14: TruncateEnd(end_group) returns true exactly when end_group is at
\* most the group of the current end, whatever the finer fields of end; when
\* end_group is greater it returns false and start and end are unchanged.
C14_TruncateEndGroup ==
  \A end_group \in U64 :
    LET w == TruncateEndGroupOp(start_, end_, end_group)
    IN /\ w.ret <=> end_group <= end_.group
       /\ end_group > end_.group => (~w.ret /\ w.start = start_ /\ w.end = end_)

\* C14 witness: with end = (1, MAX, MAX) a TruncateEnd(end_group) call
\* failed, so its end_group was 2, and end is still (1, MAX, MAX).
C14_Witness ==
  /\ wcall.op = "TruncateEndGroup"
  /\ ~wcall.ret
  /\ end_ = Location(1, UINT64_MAX, UINT64_MAX)

\* TruncateStart (s1) and then a TruncateEnd call (s1e), and the same two
\* calls in the other order (e1, then e1s), return the same booleans and
\* reach the same window
Commuted(s1, s1e, e1, e1s) ==
  /\ s1.ret = e1s.ret
  /\ e1.ret = s1e.ret
  /\ s1e.start = e1s.start
  /\ s1e.end = e1s.end

\* the two extreme Locations, put in the place of the bound a call must not read
Lowest == Location(0, 0, 0)
Highest == Location(UINT64_MAX, UINT64_MAX, UINT64_MAX)

\* the call returning w from the current window left the end alone, and
\* returns the same and sets the same start when the end is replaced (w_other)
OnlyStart(w, w_other) ==
  /\ w.end = end_
  /\ w_other.ret = w.ret
  /\ w_other.start = w.start

\* the call returning w from the current window left the start alone, and
\* returns the same and sets the same end when the start is replaced (w_other)
OnlyEnd(w, w_other) ==
  /\ w.start = start_
  /\ w_other.ret = w.ret
  /\ w_other.end = w.end

\* the arguments of the two calls that are exchanged: every group, and the
\* lowest and the highest value of the finer fields; against the start and
\* end of the reachable windows, which take every value, each comparison
\* comes out less, equal and greater at each of the three fields
Probes == [group : U64, subgroup : {0, UINT64_MAX}, object : {0, UINT64_MAX}]

\* C17: TruncateStart never changes end and neither TruncateEnd form changes
\* start; what a truncation returns and assigns does not depend on the other
\* bound (it is the same with the other bound replaced by the lowest or the
\* highest Location); so TruncateStart(a) and TruncateEnd(b) (either form)
\* applied in either order from the same window return the same booleans
\* and reach the same (start, end).
C17_Commute ==
  /\ \A a \in Locations :
       /\ OnlyStart(TruncateStartOp(start_, end_, a), TruncateStartOp(start_, Lowest, a))
       /\ OnlyStart(TruncateStartOp(start_, end_, a), TruncateStartOp(start_, Highest, a))
       /\ OnlyEnd(TruncateEndLocationOp(start_, end_, a),
                  TruncateEndLocationOp(Lowest, end_, a))
       /\ OnlyEnd(TruncateEndLocationOp(start_, end_, a),
                  TruncateEndLocationOp(Highest, end_, a))
  /\ \A end_group \in U64 :
       /\ OnlyEnd(TruncateEndGroupOp(start_, end_, end_group),
                  TruncateEndGroupOp(Lowest, end_, end_group))
       /\ OnlyEnd(TruncateEndGroupOp(start_, end_, end_group),
                  TruncateEndGroupOp(Highest, end_, end_group))
  /\ \A a \in Probes :
       LET s1 == TruncateStartOp(start_, end_, a)
       IN /\ \A b \in Probes :
               LET e1 == TruncateEndLocationOp(start_, end_, b)
               IN Commuted(s1, TruncateEndLocationOp(s1.start, s1.end, b),
                           e1, TruncateStartOp(e1.start, e1.end, a))
          /\ \A end_group \in U64 :
               LET e1 == TruncateEndGroupOp(start_, end_, end_group)
               IN Commuted(s1, TruncateEndGroupOp(s1.start, s1.end, end_group),
                           e1, TruncateStartOp(e1.start, e1.end, a))

\* C17 witness: a TruncateStart succeeded and moved start beyond end: the
\* success did not depend on end, and end is where it was.
C17_Witness ==
  /\ wcall.op = "TruncateStart"
  /\ wcall.ret
  /\ LocLess(end_, start_)
  /\ end_ = Location(1, 0, 1)

(***************************************************************************)
(* SendStreamMap properties (checked under SpecMap, the map constructed    *)
(* with kSubgroup, and SpecDatagram, the map constructed with kDatagram)   *)
(***************************************************************************)

\* C4: under Subgroup preference, while a stream is recorded for a
\* (group, subgroup) key, every AddStream for that key reports a violation
\* and leaves the table unchanged, whatever stream id it passes; the key
\* still maps to the stream recorded first.
C4_NoDuplicateAllocation ==
  forwarding_preference_ = kSubgroup =>
    \A sequence \in InputLocations, stream_id \in StreamIds :
      recorded[KeyOf(sequence)] # nullopt =>
        LET r == AddStreamOp(send_streams_, forwarding_preference_, sequence, stream_id)
        IN /\ r.violation = "QUIC_BUG"
           /\ r.map = send_streams_
           /\ GetStreamForSequence(r.map, forwarding_preference_, sequence)
                = recorded[KeyOf(sequence)]

\* C4 witness: an AddStream on an occupied key was reported as a violation
\* and the streams recorded before it are still recorded.
C4_Witness ==
  /\ forwarding_preference_ = kSubgroup
  /\ call.op = "AddStream"
  /\ call.violation = "QUIC_BUG"
  /\ NumStreamsIn(send_streams_) = MaxLive

\* C5: under Datagram preference every call is reported as a violation and
\* no AddStream records an entry.
C5_DatagramRejected ==
  forwarding_preference_ = kDatagram =>
     /\ call.op # "none" => call.violation # NoViolation
     /\ GetAllStreams(send_streams_) = <<>>

\* C6: RemoveStream(L, S) reports a violation and leaves the table unchanged
\* when L's group has no entry, when the group has no entry for L's
\* subgroup, or when the recorded stream differs from S; otherwise it
\* deletes exactly the entry of (L.group, L.subgroup).
C6_RemoveStream ==
  forwarding_preference_ = kSubgroup =>
    \A L \in InputLocations, S \in StreamIds :
      LET r == RemoveStreamOp(send_streams_, forwarding_preference_, L, S)
          rejected == \/ L.group \notin DOMAIN send_streams_
                      \/ L.subgroup \notin DOMAIN send_streams_[L.group]
                      \/ send_streams_[L.group][L.subgroup] # S
      IN IF rejected
           THEN /\ r.violation \in {"QUICHE_NOTREACHED:61", "QUICHE_NOTREACHED:67"}
                /\ r.map = send_streams_
           ELSE /\ r.violation = NoViolation
                /\ DOMAIN r.map = DOMAIN send_streams_
                /\ \A g \in DOMAIN send_streams_ :
                     /\ DOMAIN r.map[g] =
                          IF g = L.group
                            THEN (DOMAIN send_streams_[g]) \ {L.subgroup}
                            ELSE DOMAIN send_streams_[g]
                     /\ \A sg \in DOMAIN r.map[g] :
                          r.map[g][sg] = send_streams_[g][sg]

\* C6 witness: a RemoveStream was rejected for its stream id: the check
\* after the group lookup fired while every subgroup of every known group
\* holds a stream.
C6_Witness ==
  /\ forwarding_preference_ = kSubgroup
  /\ call.op = "RemoveStream"
  /\ call.violation = "QUICHE_NOTREACHED:67"
  /\ DOMAIN send_streams_ # {}
  /\ \A g \in DOMAIN send_streams_ : DOMAIN send_streams_[g] = Subgroups

\* C7: under Subgroup preference, AddStream(L, S) on an unoccupied key
\* followed by RemoveStream(L', S) with the same group and subgroup runs
\* without violation, leaves GetStreamForSequence absent wherever it was
\* absent before the AddStream (so for L) and restores the results of all
\* three queries to those before the AddStream.
C7_RemovalSymmetry ==
  (forwarding_preference_ = kSubgroup /\ undone # <<>>) =>
     /\ call.violation = NoViolation
     /\ \A L \in InputLocations :
          GetStreamForSequence(undone[1], forwarding_preference_, L) = nullopt
            => GetStreamForSequence(send_streams_, forwarding_preference_, L) = nullopt
     /\ Queries(send_streams_, forwarding_preference_)
          = Queries(undone[1], forwarding_preference_)

\* C7 witness: AddStream(L, S) and then RemoveStream(L', S) on the same key
\* have run in a map that holds another stream; the pair left an empty group
\* entry that was not there before.
C7_Witness ==
  /\ forwarding_preference_ = kSubgroup
  /\ undone # <<>>
  /\ call.op = "RemoveStream"
  /\ GetAllStreams(send_streams_) # <<>>
  /\ undone[1] # send_streams_

\* C8: under Subgroup preference GetStreamForSequence(L) returns the stream
\* of the most recent successful AddStream for (L.group, L.subgroup) that no
\* successful RemoveStream followed, and absent otherwise, whatever L.object.
C8_Lookup ==
  forwarding_preference_ = kSubgroup =>
     /\ \A L \in InputLocations :
          GetStreamForSequence(send_streams_, forwarding_preference_, L)
            = recorded[KeyOf(L)]
     /\ call.op = "GetStreamForSequence" =>
          /\ call.violation = NoViolation
          /\ \/ call.result = nullopt
             \/ \E k \in Keys : recorded[k] = call.result

\* C8 witness: a lookup returned a recorded stream after the streams of
\* another group have been added and removed.
C8_Witness ==
  /\ forwarding_preference_ = kSubgroup
  /\ call.op = "GetStreamForSequence"
  /\ call.result # nullopt
  /\ \E g \in DOMAIN send_streams_ : DOMAIN send_streams_[g] = {}

\* number of occurrences of x in the sequence s
Count(s, x) == Cardinality({i \in 1..Len(s) : s[i] = x})

\* the subgroups of group g that hold a recorded stream
Occupied(g) == {sg \in Subgroups : recorded[<<g, sg>>] # nullopt}

\* C9: GetStreamsForGroup(g) returns exactly the streams currently recorded
\* under the keys of group g, one per occupied subgroup and none of another
\* group; it is empty for a group without recorded streams, whether nothing
\* was ever added or everything was removed.
C9_GroupIsolation ==
  forwarding_preference_ = kSubgroup =>
     /\ \A g \in Groups :
          LET r == GetStreamsForGroup(send_streams_, g)
          IN /\ Len(r) = Cardinality(Occupied(g))
             /\ \A id \in StreamIds :
                  Count(r, id) =
                    Cardinality({sg \in Occupied(g) : recorded[<<g, sg>>] = <<id>>})
     /\ call.op = "GetStreamsForGroup" =>
          /\ call.violation = NoViolation
          /\ \E g \in Groups :
               /\ Len(call.result) = Cardinality(Occupied(g))
               /\ \A i \in 1..Len(call.result) :
                    \E sg \in Occupied(g) : recorded[<<g, sg>>] = <<call.result[i]>>

\* C9 witness: GetStreamsForGroup returned the empty sequence while some
\* group has had all its streams removed and the other groups hold streams.
C9_Witness ==
  /\ forwarding_preference_ = kSubgroup
  /\ call.op = "GetStreamsForGroup"
  /\ call.result = <<>>
  /\ \E g \in DOMAIN send_streams_ : DOMAIN send_streams_[g] = {}
  /\ \A g \in Groups : g \in DOMAIN send_streams_
  /\ GetAllStreams(send_streams_) # <<>>

\* GetStreamsForGroup(g) concatenated over the groups g = from..MaxGroup
RECURSIVE ConcatGroups(_, _)
ConcatGroups(m, from) ==
  IF from > MaxGroup THEN <<>>
  ELSE GetStreamsForGroup(m, from) \o ConcatGroups(m, from + 1)

\* the recorded streams in ascending order of (group, subgroup)
RECURSIVE RecordedFrom(_, _)
RecordedFrom(g, sg) ==
  IF g > MaxGroup THEN <<>>
  ELSE IF sg > MaxSubgroup THEN RecordedFrom(g + 1, 0)
  ELSE recorded[<<g, sg>>] \o RecordedFrom(g, sg + 1)

\* C10: GetAllStreams returns one element per occupied (group, subgroup) key
\* and nothing else; the sequence is a function of the current entries alone
\* (ascending group, then ascending subgroup) and equals the concatenation
\* of GetStreamsForGroup(g) over the groups in ascending order.
C10_AllStreams ==
  /\ GetAllStreams(send_streams_) = ConcatGroups(send_streams_, 0)
  /\ forwarding_preference_ = kSubgroup =>
        GetAllStreams(send_streams_) = RecordedFrom(0, 0)
  /\ call.op = "GetAllStreams" =>
        /\ call.result = GetAllStreams(send_streams_)
        /\ call.violation = NoViolation

\* C10 witness: GetAllStreams returned the streams of two groups in the
\* order of the groups, which is not the order of the stream ids.
C10_Witness ==
  /\ forwarding_preference_ = kSubgroup
  /\ call.op = "GetAllStreams"
  /\ Len(call.result) = 2
  /\ call.result[1] > call.result[2]
  /\ \A g \in DOMAIN send_streams_ : Len(GetStreamsForGroup(send_streams_, g)) = 1

\* what the table m holds under the key k = <<group, subgroup>>
Held(m, k) ==
  IF k[1] \in DOMAIN m /\ k[2] \in DOMAIN m[k[1]] THEN <<m[k[1]][k[2]]>> ELSE nullopt

\* C16: every AddStream or RemoveStream step, accepted or rejected, leaves
\* what the table holds under every key other than the key of its Location
\* unchanged (the history changes at that key only, and only when the call
\* is accepted), and every GetStreamForSequence, GetAllStreams or
\* GetStreamsForGroup step leaves the whole table unchanged.
C16_KeyIsolation ==
  [][ /\ call'.op \in {"GetStreamForSequence", "GetAllStreams", "GetStreamsForGroup"} =>
           send_streams_' = send_streams_
      /\ \/ send_streams_' = send_streams_
         \/ \A k \in Keys :
              recorded'[k] = recorded[k] => Held(send_streams_', k) = Held(send_streams_, k)
    ]_vars

\* C16 witness: an AddStream was accepted in a group that held a stream
\* under its other subgroup, and that stream is still there.
C16_Witness ==
  /\ call.op = "AddStream"
  /\ call.violation = NoViolation
  /\ lastAdd # <<>>
  /\ \E sg \in Subgroups \ {lastAdd[1].key[2]} :
       /\ Held(lastAdd[1].before, <<lastAdd[1].key[1], sg>>) # nullopt
       /\ Held(send_streams_, <<lastAdd[1].key[1], sg>>)
            = Held(lastAdd[1].before, <<lastAdd[1].key[1], sg>>)

(***************************************************************************)
(* The table against a flat partial function from (group, subgroup) to a   *)
(* stream id (checked under SpecAddRemove)                                 *)
(***************************************************************************)

\* the flat function a table stands for: empty group entries stand for nothing
FlatOf(m) == [k \in Keys |-> Held(m, k)]

\* the five operations on a flat function f; violation is a boolean
FlatAddStream(f, key, stream_id) ==
  IF f[key] # nullopt
    THEN [map |-> f, violation |-> TRUE]
    ELSE [map |-> [f EXCEPT ![key] = <<stream_id>>], violation |-> FALSE]

FlatRemoveStream(f, key, stream_id) ==
  IF f[key] # <<stream_id>>
    THEN [map |-> f, violation |-> TRUE]
    ELSE [map |-> [f EXCEPT ![key] = nullopt], violation |-> FALSE]

FlatGetStreamForSequence(f, key) == f[key]

RECURSIVE FlatFrom(_, _, _, _)
FlatFrom(f, g, sg, last_group) ==
  IF g > last_group THEN <<>>
  ELSE IF sg > MaxSubgroup THEN FlatFrom(f, g + 1, 0, last_group)
  ELSE f[<<g, sg>>] \o FlatFrom(f, g, sg + 1, last_group)

FlatGetStreamsForGroup(f, group_id) == FlatFrom(f, group_id, 0, group_id)

FlatGetAllStreams(f) == FlatFrom(f, 0, 0, MaxGroup)

\* C15: under Subgroup preference the two-level table and a flat partial
\* function from (group, subgroup) to a stream id, run side by side, agree:
\* in every state reached by AddStream and RemoveStream calls, each further
\* AddStream or RemoveStream reports a violation on the table iff it does on
\* the flat function and leaves the table standing for the flat result, and
\* the three queries return the same on both; the table stands for the
\* function of the successful calls so far.  Empty group entries left by
\* RemoveStream are not observable, and a removed key accepts any stream id.
\* (f is the flat function of the table; a, r and fa, fr are the outcomes of
\* the call on the table and on f.)
C15_FlatEquivalence ==
  LET f == FlatOf(send_streams_)
  IN /\ \A sequence \in InputLocations, stream_id \in StreamIds :
          LET a == AddStreamOp(send_streams_, forwarding_preference_, sequence, stream_id)
              fa == FlatAddStream(f, KeyOf(sequence), stream_id)
              r == RemoveStreamOp(send_streams_, forwarding_preference_, sequence, stream_id)
              fr == FlatRemoveStream(f, KeyOf(sequence), stream_id)
          IN /\ (a.violation # NoViolation) = fa.violation
             /\ FlatOf(a.map) = fa.map
             /\ (r.violation # NoViolation) = fr.violation
             /\ FlatOf(r.map) = fr.map
     /\ \A L \in InputLocations :
          GetStreamForSequence(send_streams_, forwarding_preference_, L)
            = FlatGetStreamForSequence(f, KeyOf(L))
     /\ \A g \in Groups :
          GetStreamsForGroup(send_streams_, g) = FlatGetStreamsForGroup(f, g)
     /\ GetAllStreams(send_streams_) = FlatGetAllStreams(f)
     /\ f = recorded

\* C15 witness: an AddStream succeeded on a key of a group whose entry had
\* been left empty by RemoveStream, while another group holds a stream.
C15_Witness ==
  /\ call.op = "AddStream"
  /\ call.violation = NoViolation
  /\ lastAdd # <<>>
  /\ lastAdd[1].key[1] \in DOMAIN lastAdd[1].before
  /\ DOMAIN lastAdd[1].before[lastAdd[1].key[1]] = {}
  /\ NumStreamsIn(send_streams_) = 2

\* the keys under which the table m holds the stream S
KeysOfStream(m, S) == {k \in Keys : Held(m, k) = <<S>>}

\* C18: the table checks that keys are unique, not stream ids: under
\* Subgroup preference AddStream(L2, S) on an unoccupied key succeeds without
\* violation although S is recorded under another key, and both keys then
\* map to S; with S recorded under the key of L1 and under another key,
\* RemoveStream(L1, S) deletes only L1's entry and S stays under the others.
C18_StreamIdsNotUnique ==
  \A S \in StreamIds :
    LET held == KeysOfStream(send_streams_, S)
    IN held # {} =>
         \A L \in InputLocations :
           LET a == AddStreamOp(send_streams_, forwarding_preference_, L, S)
               r == RemoveStreamOp(send_streams_, forwarding_preference_, L, S)
           IN /\ Held(send_streams_, KeyOf(L)) = nullopt =>
                   /\ a.violation = NoViolation
                   /\ \A k \in held \cup {KeyOf(L)} : Held(a.map, k) = <<S>>
              /\ (KeyOf(L) \in held /\ held # {KeyOf(L)}) =>
                   /\ r.violation = NoViolation
                   /\ Held(r.map, KeyOf(L)) = nullopt
                   /\ \A k \in Keys \ {KeyOf(L)} :
                        Held(r.map, k) = Held(send_streams_, k)

\* C18 witness: the last call, a successful AddStream, recorded a stream that
\* the table already held under another key; two keys now map to it.
C18_Witness ==
  /\ call.op = "AddStream"
  /\ call.violation = NoViolation
  /\ lastAdd # <<>>
  /\ KeysOfStream(lastAdd[1].before, lastAdd[1].stream_id) # {}
  /\ Cardinality(KeysOfStream(send_streams_, lastAdd[1].stream_id)) = 2

(***************************************************************************)
(* ReducedSequenceIndex properties (checked under SpecIndex)               *)
(***************************************************************************)

\* C11: the reduction is defined for every Location and both preferences:
\* (g, s, o) reduces to (g, s, 0) under Subgroup and to (g, 0, o) under
\* Datagram; two Locations reduce to the same index under Subgroup iff they
\* agree on (group, subgroup) and under Datagram iff they agree on
\* (group, object); reducing an index again under the same preference
\* yields the same index.
C11_Reduction ==
  /\ \A i \in 1..Len(indices) :
       LET x == indices[i]
       IN /\ x.sequence_ \in Locations
          /\ x.preference = kSubgroup =>
               x.sequence_ = Location(x.sequence.group, x.sequence.subgroup, 0)
          /\ x.preference = kDatagram =>
               x.sequence_ = Location(x.sequence.group, 0, x.sequence.object)
  /\ Len(indices) = 2 /\ indices[1].preference = indices[2].preference =>
       LET a == indices[1]
           b == indices[2]
       IN /\ a.preference = kSubgroup =>
               (a.sequence_ = b.sequence_
                  <=> /\ a.sequence.group = b.sequence.group
                      /\ a.sequence.subgroup = b.sequence.subgroup)
          /\ a.preference = kDatagram =>
               (a.sequence_ = b.sequence_
                  <=> /\ a.sequence.group = b.sequence.group
                      /\ a.sequence.object = b.sequence.object)
          /\ a.sequence = b.sequence_ => a.sequence_ = b.sequence_

\* C11 witness: two Locations of one group and subgroup with different,
\* nonzero objects were reduced under Subgroup to the same index.
C11_Witness ==
  /\ Len(indices) = 2
  /\ indices[1].preference = kSubgroup
  /\ indices[2].preference = kSubgroup
  /\ indices[1].sequence.object = 1
  /\ indices[2].sequence.object = 2
  /\ indices[1].sequence.subgroup = 1
  /\ indices[1].sequence_ = indices[2].sequence_

====
